---- MODULE Spec2Model ----
(***************************************************************************)
(* Model of src/src/index.ts: the energy-assessment canister.              *)
(*                                                                         *)
(* The file declares the service twice: lines 1-220 (with parameter        *)
(* validation and try/catch around two of the three inserts) and lines     *)
(* 222-367 (the same functions without either).  `variant` says which      *)
(* declaration of a twice-declared function is in effect; the functions    *)
(* declared once (calculateTotalConsumption, getHighEfficiencyAssessments) *)
(* are in effect under both.                                               *)
(*                                                                         *)
(* One action is one canister call, run to completion.  `call` and         *)
(* `result` record the call just made and what it returned.                *)
(***************************************************************************)
EXTENDS Integers, Sequences, FiniteSets, TLC

VARIABLES
    variant,                  \* 1: declarations of lines 49-206, 2: of lines 267-352
    energyAssessmentStorage,  \* StableBTreeMap<string, EnergyAssessment>: id -> record
    now,                      \* the latest ic.time() a stored write has read; the clock never goes back
    issued,                   \* the ids uuidv4() has returned and the store has held
    calls,                    \* number of calls that changed the store (bounded by MaxCalls)
    usageLog,                 \* per present id, the readings addEnergyUsage stored, in call order
    call,                     \* the call just made: its name and arguments
    result                    \* what that call returned

vars == <<variant, energyAssessmentStorage, now, issued, calls, usageLog, call, result>>

---------------------------------------------------------------------------
(* Bounds of the model *)

\* at most this many store-changing calls in a run
MaxCalls == 3

---------------------------------------------------------------------------
(* Values *)

\* the ids uuidv4() can return; an id is never the empty string
Uuid(i) == "uuid-" \o ToString(i)
Uuids == {Uuid(i) : i \in 1..MaxCalls}

\* ids a caller may pass: any uuid (issued or not) and the empty string
IdArgs == Uuids \cup {""}

Principals == {"alice", "bob"}

\* EnergyAssessmentPayload values a caller may send: two valid ones, and one for
\* each way line 51 rejects a payload.  A payload without the recommendations
\* key is the omitted-recommendations case of line 65.
ValidPayload ==
    [address |-> "1 Main St", efficiencyRating |-> 5, recommendations |-> "seal windows", costSavings |-> 200]
ValidPayloadNoRecommendations ==
    [address |-> "2 Main St", efficiencyRating |-> 9, costSavings |-> 300]
EmptyAddressPayload ==
    [address |-> "", efficiencyRating |-> 5, recommendations |-> "", costSavings |-> 200]
ZeroRatingPayload ==
    [address |-> "3 Main St", efficiencyRating |-> 0, recommendations |-> "", costSavings |-> 200]
NegativeSavingsPayload ==
    [address |-> "3 Main St", efficiencyRating |-> 5, recommendations |-> "", costSavings |-> -1]

Payloads ==
    { ValidPayload, ValidPayloadNoRecommendations,
      EmptyAddressPayload, ZeroRatingPayload, NegativeSavingsPayload }

\* the createEnergyAssessment calls made: who sends which payload
CreateRequests ==
    { [payload |-> ValidPayload, caller |-> "alice"],
      [payload |-> ValidPayloadNoRecommendations, caller |-> "bob"],
      [payload |-> EmptyAddressPayload, caller |-> "alice"],
      [payload |-> ZeroRatingPayload, caller |-> "bob"],
      [payload |-> NegativeSavingsPayload, caller |-> "alice"] }

\* the updateEnergyAssessment calls made: who sends which payload (the update
\* checks none of them).  The code never reads ic.caller() in an update, so
\* anyone may update anyone's record.
UpdateRequests ==
    { [payload |-> ValidPayload, caller |-> "bob"],
      [payload |-> ValidPayloadNoRecommendations, caller |-> "alice"],
      [payload |-> ZeroRatingPayload, caller |-> "alice"] }

\* the addEnergyUsage calls made: who appends which EnergyUsageData value
\* (dates need not be sorted)
UsageRequests ==
    { [reading |-> [date |-> 200, consumption |-> 30], caller |-> "alice"],
      [reading |-> [date |-> 100, consumption |-> 10], caller |-> "bob"] }

Thresholds == {0, 9}

\* azle's Opt
None == [None |-> "null"]
Some(v) == [Some |-> v]
IsSome(o) == "Some" \in DOMAIN o

\* azle's Result, and a call that ends in an uncaught exception (a trap: the
\* caller gets a reject, not a Result, and the call's state changes are dropped)
Ok(v) == [Ok |-> v]
Err(m) == [Err |-> m]
Trap == [Trap |-> "uncaught exception"]
IsOk(r) == "Ok" \in DOMAIN r
IsErr(r) == "Err" \in DOMAIN r
IsTrap(r) == "Trap" \in DOMAIN r

NotFoundMsg(id) == "Energy Assessment with ID=" \o id \o " not found."

---------------------------------------------------------------------------
(* StableBTreeMap *)

\* faulty variant: a lookup that hands back an empty default record for a missing key
get_OrDefault(map, key) ==
    IF key \in DOMAIN map THEN [Some |-> map[key]]
    ELSE [Some |-> [ id |-> key, createdAt |-> 0, updatedAt |-> [None |-> "null"],
                     homeOwner |-> "alice", assessmentDate |-> 0,
                     energyUsageHistory |-> <<>>, address |-> "",
                     efficiencyRating |-> 0, recommendations |-> "", costSavings |-> 0 ]]

get(map, key) == IF key \in DOMAIN map THEN Some(map[key]) ELSE None

\* faulty variant: an insert that always writes under the first key
insert_FirstKey(map, key, value) ==
    [k \in DOMAIN map \cup {Uuid(1)} |-> IF k = Uuid(1) THEN value ELSE map[k]]

\* faulty variant: an insert that drops every other entry
insert_Only(map, key, value) == [k \in {key} |-> value]

\* faulty variant: an insert that stores nothing
insert_Dropped(map, key, value) == map

insert(map, key, value) ==
    [k \in DOMAIN map \cup {key} |-> IF k = key THEN value ELSE map[k]]

\* faulty variant: a remove that empties the map
remove_All(map, key) == <<>>

\* faulty variant: a remove that leaves the entry in place
remove_Nothing(map, key) == map

remove(map, key) == [k \in DOMAIN map \ {key} |-> map[k]]

\* values(): the records in ascending key order
RECURSIVE valuesFrom(_, _)
valuesFrom(map, i) ==
    IF i > MaxCalls THEN <<>>
    ELSE (IF Uuid(i) \in DOMAIN map THEN <<map[Uuid(i)]>> ELSE <<>>) \o valuesFrom(map, i + 1)

values(map) == valuesFrom(map, 1)

---------------------------------------------------------------------------
(* JavaScript helpers *)

\* { ...a, ...b }: every key of b overrides a
Spread(a, b) == [k \in DOMAIN a \cup DOMAIN b |-> IF k \in DOMAIN b THEN b[k] ELSE a[k]]

\* payload.recommendations || ""
RecommendationsOrDefault(payload) ==
    IF "recommendations" \in DOMAIN payload /\ payload.recommendations # ""
    THEN payload.recommendations ELSE ""

\* faulty variant: the filter keeps only ratings strictly above the threshold
RECURSIVE FilterRating_Strict(_, _)
FilterRating_Strict(seq, threshold) ==
    IF seq = <<>> THEN <<>>
    ELSE (IF Head(seq).efficiencyRating > threshold THEN <<Head(seq)>> ELSE <<>>)
         \o FilterRating_Strict(Tail(seq), threshold)

\* array.filter(pred) for pred = (a) => a.efficiencyRating >= threshold
RECURSIVE FilterRating(_, _)
FilterRating(seq, threshold) ==
    IF seq = <<>> THEN <<>>
    ELSE (IF Head(seq).efficiencyRating >= threshold THEN <<Head(seq)>> ELSE <<>>)
         \o FilterRating(Tail(seq), threshold)

\* faulty variant: the reducer returns data.consumption instead of adding it to the total
RECURSIVE ReduceConsumption_Last(_, _)
ReduceConsumption_Last(seq, total) ==
    IF seq = <<>> THEN total
    ELSE ReduceConsumption_Last(Tail(seq), Head(seq).consumption)

\* array.reduce((total, data) => total + data.consumption, 0)
RECURSIVE ReduceConsumption(_, _)
ReduceConsumption(seq, total) ==
    IF seq = <<>> THEN total
    ELSE ReduceConsumption(Tail(seq), total + Head(seq).consumption)

---------------------------------------------------------------------------
(* Record construction *)

\* line 51: !payload.address || efficiencyRating <= 0 || costSavings <= 0
InvalidPayload(payload) ==
    \/ payload.address = ""
    \/ payload.efficiencyRating <= 0
    \/ payload.costSavings <= 0

\* lines 56-67: the record createEnergyAssessment builds
NewAssessment(id, t, caller, payload) ==
    [ id |-> id,
      createdAt |-> t,
      updatedAt |-> None,
      homeOwner |-> caller,
      assessmentDate |-> t,
      energyUsageHistory |-> <<>>,
      address |-> payload.address,
      efficiencyRating |-> payload.efficiencyRating,
      recommendations |-> RecommendationsOrDefault(payload),
      costSavings |-> payload.costSavings ]

\* lines 268-276: the second declaration spreads the payload over the defaults
NewAssessment2(id, t, caller, payload) ==
    Spread([ id |-> id,
             createdAt |-> t,
             updatedAt |-> None,
             homeOwner |-> caller,
             assessmentDate |-> t,
             energyUsageHistory |-> <<>> ],
           payload)

\* faulty variant: the merge also restamps createdAt
UpdatedAssessment_ResetsCreatedAt(existingAssessment, payload, t) ==
    [k \in DOMAIN existingAssessment \cup DOMAIN payload |->
        IF k = "updatedAt" THEN [Some |-> t]
        ELSE IF k = "createdAt" THEN t
        ELSE IF k \in DOMAIN payload THEN payload[k]
        ELSE existingAssessment[k]]

\* faulty variant: the merge leaves updatedAt as it was stored
UpdatedAssessment_NoStamp(existingAssessment, payload, t) ==
    [k \in DOMAIN existingAssessment \cup DOMAIN payload |->
        IF k \in DOMAIN payload THEN payload[k] ELSE existingAssessment[k]]

\* faulty variant: the spreads are swapped, so the stored fields override the payload
UpdatedAssessment_PayloadFirst(existingAssessment, payload, t) ==
    [k \in DOMAIN existingAssessment \cup DOMAIN payload |->
        IF k = "updatedAt" THEN [Some |-> t]
        ELSE IF k \in DOMAIN existingAssessment THEN existingAssessment[k]
        ELSE payload[k]]

\* lines 109-113 and 301-305: { ...existingAssessment, ...payload, updatedAt: Opt.Some(ic.time()) }
UpdatedAssessment(existingAssessment, payload, t) ==
    Spread(Spread(existingAssessment, payload), [updatedAt |-> Some(t)])

\* faulty variant: the push also stamps updatedAt
PushUsage_Stamps(assessment, date, consumption) ==
    [assessment EXCEPT !.energyUsageHistory =
                           Append(@, [date |-> date, consumption |-> consumption]),
                       !.updatedAt = [Some |-> date]]

\* faulty variant: the reading is pushed twice
PushUsage_Twice(assessment, date, consumption) ==
    [assessment EXCEPT !.energyUsageHistory =
        @ \o << [date |-> date, consumption |-> consumption],
                [date |-> date, consumption |-> consumption] >>]

\* faulty variant: the reading is put at the front of the history (unshift for push)
PushUsage_Front(assessment, date, consumption) ==
    [assessment EXCEPT !.energyUsageHistory =
        <<[date |-> date, consumption |-> consumption]>> \o @]

\* lines 154 and 335: assessment.energyUsageHistory.push({ date, consumption })
PushUsage(assessment, date, consumption) ==
    [assessment EXCEPT !.energyUsageHistory =
        Append(@, [date |-> date, consumption |-> consumption])]

\* the values ic.time() may return in an updateEnergyAssessment call: the clock
\* never goes back.  createEnergyAssessment reads `now`, so a record is created
\* at time 0 or at the time of an earlier update.
ClockReads == {now, now + 1}

\* uuidv4(): an id never returned before (ids are handed out in ascending order)
uuidv4 == Uuid(Cardinality(issued) + 1)

---------------------------------------------------------------------------
(* Queries, as functions of the store *)

\* lines 80-90
getEnergyAssessment(map, id) ==
    IF id = "" THEN Err("Invalid ID format.")
    ELSE IF IsSome(get(map, id)) THEN Ok(get(map, id).Some)
    ELSE Err(NotFoundMsg(id))

\* lines 285-290
getEnergyAssessment2(map, id) ==
    IF IsSome(get(map, id)) THEN Ok(get(map, id).Some)
    ELSE Err(NotFoundMsg(id))

\* lines 94-96 and 293-295
getAllEnergyAssessments(map) == Ok(values(map))

\* lines 164-174
getEnergyUsageHistory(map, id) ==
    IF id = "" THEN Err("Invalid ID format.")
    ELSE IF IsSome(get(map, id)) THEN Ok(get(map, id).Some.energyUsageHistory)
    ELSE Err(NotFoundMsg(id))

\* lines 347-352
getEnergyUsageHistory2(map, id) ==
    IF IsSome(get(map, id)) THEN Ok(get(map, id).Some.energyUsageHistory)
    ELSE Err(NotFoundMsg(id))

\* lines 178-191
calculateTotalConsumption(map, id) ==
    IF id = "" THEN Err("Invalid ID format.")
    ELSE IF IsSome(get(map, id))
         THEN Ok(ReduceConsumption(get(map, id).Some.energyUsageHistory, 0))
    ELSE Err(NotFoundMsg(id))

\* lines 195-206
getHighEfficiencyAssessments(map, threshold) ==
    IF threshold <= 0
    THEN Err("Invalid threshold value. Threshold must be greater than 0.")
    ELSE Ok(FilterRating(values(map), threshold))

\* the declaration of each query in effect
GetAssessment(id) ==
    IF variant = 1 THEN getEnergyAssessment(energyAssessmentStorage, id)
    ELSE getEnergyAssessment2(energyAssessmentStorage, id)

GetUsageHistory(id) ==
    IF variant = 1 THEN getEnergyUsageHistory(energyAssessmentStorage, id)
    ELSE getEnergyUsageHistory2(energyAssessmentStorage, id)

---------------------------------------------------------------------------
(* Initial state: an empty store (line 45), nothing called yet *)

Init ==
    /\ variant \in {1, 2}
    /\ energyAssessmentStorage = <<>>
    /\ now = 0
    /\ issued = {}
    /\ calls = 0
    /\ usageLog = <<>>
    /\ call = [op |-> "none"]
    /\ result = [none |-> "null"]

\* the canister runs one call at a time: a call starts when the previous reply is out
Idle == call.op = "none"

\* a call that returns without touching the store, the clock or the id source
Returns(c, r) ==
    /\ Idle
    /\ call' = c
    /\ result' = r
    /\ UNCHANGED <<variant, energyAssessmentStorage, now, issued, calls, usageLog>>

---------------------------------------------------------------------------
(* $update calls, first declaration (lines 49-160) *)

\* lines 49-76
createEnergyAssessment ==
    /\ variant = 1
    /\ Idle
    /\ \E request \in CreateRequests :
        LET payload == request.payload
            caller == request.caller
            c == [op |-> "createEnergyAssessment", payload |-> payload, caller |-> caller] IN
        \/ /\ InvalidPayload(payload)
           /\ Returns(c, Err("Missing or invalid fields in the payload."))
        \/ /\ ~InvalidPayload(payload)
           /\ calls < MaxCalls
           /\ \E insertThrows \in BOOLEAN :
                LET t == now
                    id == uuidv4
                    assessment == NewAssessment(id, t, caller, payload) IN
                /\ call' = Spread(c, [time |-> t, insertThrows |-> insertThrows])
                /\ IF insertThrows
                   THEN /\ result' = Err("Failed to create the energy assessment")
                        /\ UNCHANGED <<energyAssessmentStorage, usageLog, now, issued, calls>>
                   ELSE /\ energyAssessmentStorage' =
                               insert(energyAssessmentStorage, assessment.id, assessment)
                        /\ usageLog' = insert(usageLog, assessment.id, <<>>)
                        /\ now' = t
                        /\ issued' = issued \cup {id}
                        /\ calls' = calls + 1
                        /\ result' = Ok(assessment)
                /\ UNCHANGED variant

\* lines 100-125
updateEnergyAssessment ==
    /\ variant = 1
    /\ Idle
    /\ \E id \in IdArgs, request \in UpdateRequests :
        LET payload == request.payload
            c == [op |-> "updateEnergyAssessment", id |-> id, payload |-> payload,
                  caller |-> request.caller] IN
        \/ /\ id = ""
           /\ Returns(c, Err("ID is required."))
        \/ /\ id # ""
           /\ ~IsSome(get(energyAssessmentStorage, id))
           /\ Returns(c, Err(NotFoundMsg(id)))
        \/ /\ id # ""
           /\ IsSome(get(energyAssessmentStorage, id))
           /\ calls < MaxCalls
           /\ \E insertThrows \in BOOLEAN, t \in ClockReads :
                LET existingAssessment == get(energyAssessmentStorage, id).Some
                    updatedAssessment == UpdatedAssessment(existingAssessment, payload, t)
                IN
                /\ call' = Spread(c, [time |-> t, insertThrows |-> insertThrows])
                /\ IF insertThrows
                   THEN /\ t = now
                        /\ result' = Err("Failed to update the energy assessment")
                        /\ UNCHANGED <<energyAssessmentStorage, now, calls>>
                   ELSE /\ energyAssessmentStorage' =
                               insert(energyAssessmentStorage, updatedAssessment.id, updatedAssessment)
                        /\ now' = t
                        /\ calls' = calls + 1
                        /\ result' = Ok(updatedAssessment)
                /\ UNCHANGED <<variant, issued, usageLog>>

\* lines 129-142
deleteEnergyAssessment ==
    /\ variant = 1
    /\ Idle
    /\ \E id \in IdArgs :
        LET c == [op |-> "deleteEnergyAssessment", id |-> id] IN
        \/ /\ id = ""
           /\ Returns(c, Err("ID is required."))
        \/ /\ id # ""
           /\ ~IsSome(get(energyAssessmentStorage, id))
           /\ Returns(c, Err(NotFoundMsg(id)))
        \/ /\ id # ""
           /\ IsSome(get(energyAssessmentStorage, id))
           /\ calls < MaxCalls
           /\ LET existingAssessment == get(energyAssessmentStorage, id).Some IN
                /\ call' = c
                /\ calls' = calls + 1
                /\ energyAssessmentStorage' = remove(energyAssessmentStorage, id)
                /\ usageLog' = remove(usageLog, id)
                /\ result' = Ok(existingAssessment)
                /\ UNCHANGED <<variant, now, issued>>

\* lines 146-160: the insert is not inside a try, so an insert that throws ends the call
addEnergyUsage ==
    /\ variant = 1
    /\ Idle
    /\ \E id \in IdArgs, request \in UsageRequests :
        LET reading == request.reading
            c == [op |-> "addEnergyUsage", id |-> id, date |-> reading.date,
                  consumption |-> reading.consumption, caller |-> request.caller] IN
        \/ /\ id = ""
           /\ Returns(c, Err("ID is required."))
        \/ /\ id # ""
           /\ ~IsSome(get(energyAssessmentStorage, id))
           /\ Returns(c, Err(NotFoundMsg(id)))
        \/ /\ id # ""
           /\ IsSome(get(energyAssessmentStorage, id))
           /\ calls < MaxCalls
           /\ \E insertThrows \in BOOLEAN :
                LET assessment == PushUsage(get(energyAssessmentStorage, id).Some,
                                            reading.date, reading.consumption) IN
                /\ call' = Spread(c, [insertThrows |-> insertThrows])
                /\ IF insertThrows
                   THEN /\ result' = Trap
                        /\ UNCHANGED <<energyAssessmentStorage, usageLog, calls>>
                   ELSE /\ energyAssessmentStorage' = insert(energyAssessmentStorage, id, assessment)
                        /\ usageLog' = [usageLog EXCEPT ![id] = Append(@, reading)]
                        /\ calls' = calls + 1
                        /\ result' = Ok(assessment)
                /\ UNCHANGED <<variant, now, issued>>

---------------------------------------------------------------------------
(* $update calls, second declaration (lines 267-341): no parameter checks,   *)
(* no try around any insert                                                  *)

\* lines 267-280
createEnergyAssessment2 ==
    /\ variant = 2
    /\ Idle
    /\ calls < MaxCalls
    /\ \E request \in CreateRequests, insertThrows \in BOOLEAN :
        LET t == now
            payload == request.payload
            caller == request.caller
            id == uuidv4
            assessment == NewAssessment2(id, t, caller, payload) IN
        /\ call' = [op |-> "createEnergyAssessment", payload |-> payload, caller |-> caller,
                    time |-> t, insertThrows |-> insertThrows]
        /\ IF insertThrows
           THEN /\ result' = Trap
                /\ UNCHANGED <<energyAssessmentStorage, usageLog, now, issued, calls>>
           ELSE /\ energyAssessmentStorage' =
                       insert(energyAssessmentStorage, assessment.id, assessment)
                /\ usageLog' = insert(usageLog, assessment.id, <<>>)
                /\ now' = t
                /\ issued' = issued \cup {id}
                /\ calls' = calls + 1
                /\ result' = Ok(assessment)
        /\ UNCHANGED variant

\* lines 298-312
updateEnergyAssessment2 ==
    /\ variant = 2
    /\ Idle
    /\ \E id \in IdArgs, request \in UpdateRequests :
        LET payload == request.payload
            c == [op |-> "updateEnergyAssessment", id |-> id, payload |-> payload,
                  caller |-> request.caller] IN
        \/ /\ ~IsSome(get(energyAssessmentStorage, id))
           /\ Returns(c, Err(NotFoundMsg(id)))
        \/ /\ IsSome(get(energyAssessmentStorage, id))
           /\ calls < MaxCalls
           /\ \E insertThrows \in BOOLEAN, t \in ClockReads :
                LET existingAssessment == get(energyAssessmentStorage, id).Some
                    updatedAssessment == UpdatedAssessment(existingAssessment, payload, t)
                IN
                /\ call' = Spread(c, [time |-> t, insertThrows |-> insertThrows])
                /\ IF insertThrows
                   THEN /\ t = now
                        /\ result' = Trap
                        /\ UNCHANGED <<energyAssessmentStorage, now, calls>>
                   ELSE /\ energyAssessmentStorage' =
                               insert(energyAssessmentStorage, updatedAssessment.id, updatedAssessment)
                        /\ now' = t
                        /\ calls' = calls + 1
                        /\ result' = Ok(updatedAssessment)
                /\ UNCHANGED <<variant, issued, usageLog>>

\* lines 317-325
deleteEnergyAssessment2 ==
    /\ variant = 2
    /\ Idle
    /\ \E id \in IdArgs :
        LET c == [op |-> "deleteEnergyAssessment", id |-> id] IN
        \/ /\ ~IsSome(get(energyAssessmentStorage, id))
           /\ Returns(c, Err(NotFoundMsg(id)))
        \/ /\ IsSome(get(energyAssessmentStorage, id))
           /\ calls < MaxCalls
           /\ LET existingAssessment == get(energyAssessmentStorage, id).Some IN
                /\ call' = c
                /\ calls' = calls + 1
                /\ energyAssessmentStorage' = remove(energyAssessmentStorage, id)
                /\ usageLog' = remove(usageLog, id)
                /\ result' = Ok(existingAssessment)
                /\ UNCHANGED <<variant, now, issued>>

\* lines 332-341
addEnergyUsage2 ==
    /\ variant = 2
    /\ Idle
    /\ \E id \in IdArgs, request \in UsageRequests :
        LET reading == request.reading
            c == [op |-> "addEnergyUsage", id |-> id, date |-> reading.date,
                  consumption |-> reading.consumption, caller |-> request.caller] IN
        \/ /\ ~IsSome(get(energyAssessmentStorage, id))
           /\ Returns(c, Err(NotFoundMsg(id)))
        \/ /\ IsSome(get(energyAssessmentStorage, id))
           /\ calls < MaxCalls
           /\ \E insertThrows \in BOOLEAN :
                LET assessment == PushUsage(get(energyAssessmentStorage, id).Some,
                                            reading.date, reading.consumption) IN
                /\ call' = Spread(c, [insertThrows |-> insertThrows])
                /\ IF insertThrows
                   THEN /\ result' = Trap
                        /\ UNCHANGED <<energyAssessmentStorage, usageLog, calls>>
                   ELSE /\ energyAssessmentStorage' = insert(energyAssessmentStorage, id, assessment)
                        /\ usageLog' = [usageLog EXCEPT ![id] = Append(@, reading)]
                        /\ calls' = calls + 1
                        /\ result' = Ok(assessment)
                /\ UNCHANGED <<variant, now, issued>>

---------------------------------------------------------------------------
(* $query calls *)

\* faulty variant: a get that takes the record out of the store
GetEnergyAssessmentCall_Consuming ==
    \E id \in IdArgs :
        /\ Idle
        /\ call' = [op |-> "getEnergyAssessment", id |-> id]
        /\ result' = GetAssessment(id)
        /\ energyAssessmentStorage' = remove(energyAssessmentStorage, id)
        /\ usageLog' = remove(usageLog, id)
        /\ UNCHANGED <<variant, now, issued, calls>>

GetEnergyAssessmentCall ==
    \E id \in IdArgs :
        Returns([op |-> "getEnergyAssessment", id |-> id], GetAssessment(id))

GetAllEnergyAssessmentsCall ==
    Returns([op |-> "getAllEnergyAssessments"], getAllEnergyAssessments(energyAssessmentStorage))

GetEnergyUsageHistoryCall ==
    \E id \in IdArgs :
        Returns([op |-> "getEnergyUsageHistory", id |-> id], GetUsageHistory(id))

CalculateTotalConsumptionCall ==
    \E id \in IdArgs :
        Returns([op |-> "calculateTotalConsumption", id |-> id],
                calculateTotalConsumption(energyAssessmentStorage, id))

GetHighEfficiencyAssessmentsCall ==
    \E threshold \in Thresholds :
        Returns([op |-> "getHighEfficiencyAssessments", threshold |-> threshold],
                getHighEfficiencyAssessments(energyAssessmentStorage, threshold))

\* the reply reaches the caller; the canister is ready for the next call
ReturnToCaller ==
    /\ ~Idle
    /\ call' = [op |-> "none"]
    /\ result' = [none |-> "null"]
    /\ UNCHANGED <<variant, energyAssessmentStorage, now, issued, calls, usageLog>>

---------------------------------------------------------------------------

Next ==
    \/ createEnergyAssessment
    \/ updateEnergyAssessment
    \/ deleteEnergyAssessment
    \/ addEnergyUsage
    \/ createEnergyAssessment2
    \/ updateEnergyAssessment2
    \/ deleteEnergyAssessment2
    \/ addEnergyUsage2
    \/ GetEnergyAssessmentCall
    \/ GetAllEnergyAssessmentsCall
    \/ GetEnergyUsageHistoryCall
    \/ CalculateTotalConsumptionCall
    \/ GetHighEfficiencyAssessmentsCall
    \/ ReturnToCaller

Spec == Init /\ [][Next]_vars

---------------------------------------------------------------------------
(* Properties *)

WriteOps == {"createEnergyAssessment", "updateEnergyAssessment", "addEnergyUsage"}
IdWriteOps == {"updateEnergyAssessment", "deleteEnergyAssessment", "addEnergyUsage"}

\* the not-found error for `id`
IsNotFound(r, id) == IsErr(r) /\ r.Err = NotFoundMsg(id)

\* a record's field, or "absent" when the record has no such key
Field(r, k) == IF k \in DOMAIN r THEN <<r[k]>> ELSE <<>>

\* C1: createAssessment with an invalid payload (empty address, rating <= 0 or
\* savings <= 0) returns an error result and leaves the store as it was.
C1_InvalidCreateRejected ==
    [][ (call'.op = "createEnergyAssessment" /\ InvalidPayload(call'.payload))
        => (IsErr(result') /\ energyAssessmentStorage' = energyAssessmentStorage) ]_vars

\* C2: right after a successful createAssessment, getAssessment on the returned
\* id returns exactly the record createAssessment returned.
C2_CreateThenGet ==
    (call.op = "createEnergyAssessment" /\ IsOk(result))
        => GetAssessment(result.Ok.id) = Ok(result.Ok)

C2_Witness ==
    /\ call.op = "createEnergyAssessment"
    /\ IsOk(result)
    /\ Cardinality(DOMAIN energyAssessmentStorage) = 2

\* C3 as stated: right after deleteAssessment(id), for every id (the empty one
\* included), getAssessment(id) yields the not-found error.
C3_DeleteThenGetNotFound_AllIds ==
    call.op = "deleteEnergyAssessment" => IsNotFound(GetAssessment(call.id), call.id)

\* C3 amended: right after deleteAssessment(id) with a non-empty id, whether it
\* removed a record or found none, getAssessment(id) yields the not-found error;
\* for the empty id getAssessment yields an error too (not-found or invalid id).
C3_DeleteThenGetNotFound ==
    call.op = "deleteEnergyAssessment"
        => /\ call.id # "" => IsNotFound(GetAssessment(call.id), call.id)
           /\ IsErr(GetAssessment(call.id))

C3_Witness ==
    /\ call.op = "deleteEnergyAssessment"
    /\ IsOk(result)
    /\ result.Ok.id = call.id
    /\ energyAssessmentStorage # <<>>

\* C4: a successful updateAssessment(id, payload) stores and returns a record
\* whose address, efficiencyRating, costSavings and (where the payload carries
\* one) recommendations are the payload's, and whose id, owner, createdAt,
\* assessmentDate and usageHistory are those of the record stored at id before
\* the call; recommendations is left as it was when the payload carries none.
C4_UpdateMerges ==
    [][ (call'.op = "updateEnergyAssessment" /\ IsOk(result'))
        => LET old == energyAssessmentStorage[call'.id]
               new == result'.Ok
               payload == call'.payload
           IN /\ energyAssessmentStorage'[call'.id] = new
              /\ new.address = payload.address
              /\ new.efficiencyRating = payload.efficiencyRating
              /\ new.costSavings = payload.costSavings
              /\ Field(new, "recommendations") =
                    (IF "recommendations" \in DOMAIN payload
                     THEN <<payload.recommendations>>
                     ELSE Field(old, "recommendations"))
              /\ new.id = old.id
              /\ new.id = call'.id
              /\ new.homeOwner = old.homeOwner
              /\ new.createdAt = old.createdAt
              /\ new.assessmentDate = old.assessmentDate
              /\ new.energyUsageHistory = old.energyUsageHistory ]_vars

C4_Witness ==
    /\ call.op = "updateEnergyAssessment"
    /\ IsOk(result)
    /\ result.Ok.energyUsageHistory # <<>>
    /\ result.Ok.address = "2 Main St"
    /\ result.Ok.createdAt < call.time

\* C5: for every present id, getUsageHistory(id) returns exactly the readings the
\* successful appendUsage calls on that id stored since it was created, in call
\* order, one entry per call, whatever their timestamps.
C5_HistoryInCallOrder ==
    /\ DOMAIN usageLog = DOMAIN energyAssessmentStorage
    /\ \A id \in DOMAIN energyAssessmentStorage :
          GetUsageHistory(id) = Ok(usageLog[id])

C5_Witness ==
    \E id \in DOMAIN energyAssessmentStorage :
        /\ usageLog[id] = << [date |-> 200, consumption |-> 30],
                             [date |-> 100, consumption |-> 10] >>
        /\ call.op = "addEnergyUsage"
        /\ call.id = id
        /\ IsOk(result)

\* the sum of the consumption values of the first n readings of a history
RECURSIVE SumFirst(_, _)
SumFirst(history, n) ==
    IF n = 0 THEN 0 ELSE SumFirst(history, n - 1) + history[n].consumption

\* C6: for every present id, totalConsumption(id) is the sum of the consumption
\* values of all readings of that record's usageHistory, and 0 when it is empty.
C6_TotalIsSum ==
    \A id \in DOMAIN energyAssessmentStorage :
        LET history == energyAssessmentStorage[id].energyUsageHistory
            total == calculateTotalConsumption(energyAssessmentStorage, id)
        IN /\ total = Ok(SumFirst(history, Len(history)))
           /\ history = <<>> => total = Ok(0)
           /\ (call.op = "calculateTotalConsumption" /\ call.id = id) => result = total

C6_Witness ==
    /\ call.op = "calculateTotalConsumption"
    /\ call.id \in DOMAIN energyAssessmentStorage
    /\ Len(energyAssessmentStorage[call.id].energyUsageHistory) = 2
    /\ result = Ok(40)

\* the elements of a sequence
Range(seq) == {seq[i] : i \in DOMAIN seq}

\* C7: for every threshold t > 0, highEfficiencyAssessments(t) returns exactly the
\* stored records with efficiencyRating >= t, each once; for t <= 0 it returns
\* the invalid-threshold error.
C7_HighEfficiencyExact ==
    /\ \A t \in {-1, 0, 1, 5, 6, 9, 10} :
          LET r == getHighEfficiencyAssessments(energyAssessmentStorage, t)
              expected == {energyAssessmentStorage[id] : id \in
                             {k \in DOMAIN energyAssessmentStorage :
                                 energyAssessmentStorage[k].efficiencyRating >= t}}
          IN IF t > 0
             THEN /\ IsOk(r)
                  /\ Range(r.Ok) = expected
                  /\ Len(r.Ok) = Cardinality(expected)
             ELSE IsErr(r)
    /\ call.op = "getHighEfficiencyAssessments"
          => result = getHighEfficiencyAssessments(energyAssessmentStorage, call.threshold)

C7_Witness ==
    /\ call.op = "getHighEfficiencyAssessments"
    /\ call.threshold = 9
    /\ IsOk(result)
    /\ Len(result.Ok) = 1
    /\ result.Ok[1].efficiencyRating = 9
    /\ Cardinality(DOMAIN energyAssessmentStorage) = 2

\* C8: updateAssessment, deleteAssessment and appendUsage called with an id that
\* is empty or has no record return an error result and leave the store as it
\* was (so update and appendUsage never create a record for an absent id).
C8_AbsentIdRejected ==
    [][ (call'.op \in IdWriteOps /\ call'.id \notin DOMAIN energyAssessmentStorage)
        => (IsErr(result') /\ energyAssessmentStorage' = energyAssessmentStorage) ]_vars

C8_Witness ==
    /\ call.op = "updateEnergyAssessment"
    /\ call.id # ""
    /\ call.id \notin DOMAIN energyAssessmentStorage
    /\ energyAssessmentStorage # <<>>
    /\ IsErr(result)

\* C9: when the store write fails during createAssessment, updateAssessment or
\* appendUsage, the call returns a tagged error result and the store is what it
\* was before the call.
C9_WriteFailureReported ==
    [][ (call'.op \in WriteOps /\ "insertThrows" \in DOMAIN call' /\ call'.insertThrows)
        => (IsErr(result') /\ energyAssessmentStorage' = energyAssessmentStorage) ]_vars

\* C10: a successful createAssessment by caller c stores and returns a record
\* with an id that was not a key of the store before, owner c, createdAt =
\* assessmentDate = the time of the call, updatedAt absent, an empty
\* usageHistory, address, efficiencyRating and costSavings copied from the
\* payload, and the payload's recommendations, or "" when it carries none.
C10_CreateBuildsRecord ==
    [][ (call'.op = "createEnergyAssessment" /\ IsOk(result'))
        => LET new == result'.Ok
               payload == call'.payload
           IN /\ new.id \notin DOMAIN energyAssessmentStorage
              /\ new.id # ""
              /\ energyAssessmentStorage'[new.id] = new
              /\ new.homeOwner = call'.caller
              /\ new.createdAt = call'.time
              /\ new.assessmentDate = call'.time
              /\ new.updatedAt = None
              /\ new.energyUsageHistory = <<>>
              /\ new.address = payload.address
              /\ new.efficiencyRating = payload.efficiencyRating
              /\ new.costSavings = payload.costSavings
              /\ Field(new, "recommendations") =
                    (IF "recommendations" \in DOMAIN payload
                     THEN <<payload.recommendations>> ELSE <<"">>) ]_vars

\* C11: every record in the store, in every reachable state, has a non-empty
\* address, efficiencyRating > 0 and costSavings > 0.
C11_StoredRecordsValid ==
    \A id \in DOMAIN energyAssessmentStorage :
        LET r == energyAssessmentStorage[id]
        IN /\ r.address # ""
           /\ r.efficiencyRating > 0
           /\ r.costSavings > 0

\* C12: with a clock that never goes back, every successful updateAssessment
\* sets updatedAt to a present value that is >= the record's createdAt and >= the
\* record's previous updatedAt when there was one (so updatedAt never decreases
\* along the updates of a record), and that value is the time of the call.
C12_UpdatedAtMonotonic ==
    [][ (call'.op = "updateEnergyAssessment" /\ IsOk(result'))
        => LET old == energyAssessmentStorage[call'.id]
               new == energyAssessmentStorage'[call'.id]
           IN /\ IsSome(new.updatedAt)
              /\ new.updatedAt.Some = call'.time
              /\ new.updatedAt.Some >= old.createdAt
              /\ new.updatedAt.Some >= new.createdAt
              /\ IsSome(old.updatedAt) => new.updatedAt.Some >= old.updatedAt.Some ]_vars

\* a record updated twice, the second time later than the first
C12_Witness ==
    /\ call.op = "updateEnergyAssessment"
    /\ IsOk(result)
    /\ calls = 3
    /\ result.Ok.updatedAt = Some(1)
    /\ result.Ok.createdAt = 0
    /\ now = 1

\* C13: the set of stored ids changes only as the record's life cycle allows:
\* an id becomes present only by a successful createAssessment that returns
\* that id, becomes absent only by a successful deleteAssessment of that id, and
\* a successful updateAssessment or appendUsage leaves the set of ids as it was.
C13_PresenceTransitions ==
    [][ LET before == DOMAIN energyAssessmentStorage
            after == DOMAIN energyAssessmentStorage'
        IN /\ \A id \in after \ before :
                /\ call'.op = "createEnergyAssessment"
                /\ IsOk(result')
                /\ result'.Ok.id = id
           /\ \A id \in before \ after :
                /\ call'.op = "deleteEnergyAssessment"
                /\ IsOk(result')
                /\ call'.id = id
           /\ (call'.op \in {"updateEnergyAssessment", "addEnergyUsage"} /\ IsOk(result'))
                => after = before
           /\ (call'.op = "createEnergyAssessment" /\ IsOk(result'))
                => (result'.Ok.id \notin before /\ after = before \cup {result'.Ok.id})
           /\ (call'.op = "deleteEnergyAssessment" /\ IsOk(result'))
                => (call'.id \in before /\ after = before \ {call'.id}) ]_vars

\* two records created, then the first deleted: the second is still present
C13_Witness ==
    /\ call.op = "deleteEnergyAssessment"
    /\ IsOk(result)
    /\ call.id = Uuid(1)
    /\ DOMAIN energyAssessmentStorage = {Uuid(2)}

\* C14: a record's owner and createdAt are those set when it was created (the
\* caller and the time of the createAssessment call) for as long as it is
\* stored: no step changes them on a record that stays present, whichever
\* caller makes the updateAssessment or appendUsage call.
C14_OwnerAndCreatedAtFixed ==
    [][ /\ \A id \in DOMAIN energyAssessmentStorage \cap DOMAIN energyAssessmentStorage' :
            /\ energyAssessmentStorage'[id].homeOwner = energyAssessmentStorage[id].homeOwner
            /\ energyAssessmentStorage'[id].createdAt = energyAssessmentStorage[id].createdAt
        /\ (call'.op = "createEnergyAssessment" /\ IsOk(result'))
            => /\ energyAssessmentStorage'[result'.Ok.id].homeOwner = call'.caller
               /\ energyAssessmentStorage'[result'.Ok.id].createdAt = call'.time ]_vars

\* bob updates alice's record at a time later than its creation
C14_Witness ==
    /\ call.op = "updateEnergyAssessment"
    /\ IsOk(result)
    /\ call.caller = "bob"
    /\ energyAssessmentStorage[call.id].homeOwner = "alice"
    /\ energyAssessmentStorage[call.id].createdAt < call.time
    /\ energyAssessmentStorage[call.id].energyUsageHistory # <<>>

\* s is a prefix of t
IsPrefix(s, t) == Len(s) <= Len(t) /\ SubSeq(t, 1, Len(s)) = s

\* C15: usageHistory only grows: on every step, for every record that stays
\* present, the history before the step is a prefix of the history after it;
\* it is longer only after a successful appendUsage on that id, then by
\* exactly one entry (the reading of the call), and a new record starts empty.
C15_HistoryOnlyGrows ==
    [][ \A id \in DOMAIN energyAssessmentStorage \cap DOMAIN energyAssessmentStorage' :
            LET before == energyAssessmentStorage[id].energyUsageHistory
                after == energyAssessmentStorage'[id].energyUsageHistory
                appended == /\ call'.op = "addEnergyUsage"
                            /\ call'.id = id
                            /\ IsOk(result')
            IN /\ IsPrefix(before, after)
               /\ appended => after = Append(before, [date |-> call'.date,
                                                      consumption |-> call'.consumption])
               /\ ~appended => after = before ]_vars

\* a second reading, with the later date, is appended to a record that has one
C15_Witness ==
    /\ call.op = "addEnergyUsage"
    /\ IsOk(result)
    /\ Len(energyAssessmentStorage[call.id].energyUsageHistory) = 2
    /\ energyAssessmentStorage[call.id].energyUsageHistory[1].date = 100
    /\ call.date = 200

\* C16: a stored record's updatedAt is absent exactly when no successful
\* updateAssessment has been applied to it since its creation, stated step by
\* step: a created record has no updatedAt, a successful updateAssessment of
\* id leaves the record at id with an updatedAt, and every other step
\* (appendUsage on any id, an update of another id, a failed call, a query)
\* leaves the updatedAt of each record that stays present as it was.
C16_UpdatedAtIffUpdated ==
    [][ /\ (call'.op = "createEnergyAssessment" /\ IsOk(result'))
            => energyAssessmentStorage'[result'.Ok.id].updatedAt = None
        /\ \A id \in DOMAIN energyAssessmentStorage \cap DOMAIN energyAssessmentStorage' :
            IF call'.op = "updateEnergyAssessment" /\ call'.id = id /\ IsOk(result')
            THEN IsSome(energyAssessmentStorage'[id].updatedAt)
            ELSE energyAssessmentStorage'[id].updatedAt = energyAssessmentStorage[id].updatedAt
      ]_vars

\* a reading is appended to a record that was updated at time 1: updatedAt stays
C16_Witness ==
    /\ call.op = "addEnergyUsage"
    /\ IsOk(result)
    /\ result.Ok.updatedAt = Some(1)
    /\ result.Ok.energyUsageHistory # <<>>
    /\ energyAssessmentStorage[call.id] = result.Ok

QueryOps ==
    { "getEnergyAssessment", "getAllEnergyAssessments", "getEnergyUsageHistory",
      "calculateTotalConsumption", "getHighEfficiencyAssessments" }

\* C17: getAssessment, listAssessments, getUsageHistory, totalConsumption and
\* highEfficiencyAssessments leave the store as it was, for every input; the
\* result of getAssessment(id) is the one the same call returns when made again
\* on the state the first call leaves.
C17_QueriesArePure ==
    [][ call'.op \in QueryOps
        => /\ energyAssessmentStorage' = energyAssessmentStorage
           /\ call'.op = "getEnergyAssessment"
                => /\ result' = GetAssessment(call'.id)
                   /\ result' = IF variant' = 1
                                THEN getEnergyAssessment(energyAssessmentStorage', call'.id)
                                ELSE getEnergyAssessment2(energyAssessmentStorage', call'.id)
      ]_vars

\* getAssessment returns a record that has been appended to and updated, and
\* the store still holds it
C17_Witness ==
    /\ call.op = "getEnergyAssessment"
    /\ IsOk(result)
    /\ result.Ok.energyUsageHistory # <<>>
    /\ IsSome(result.Ok.updatedAt)
    /\ energyAssessmentStorage[call.id] = result.Ok
    /\ result = GetAssessment(call.id)

MutatingOps ==
    { "createEnergyAssessment", "updateEnergyAssessment", "addEnergyUsage",
      "deleteEnergyAssessment" }

\* C18: a successful createAssessment, updateAssessment(id, ..),
\* appendUsage(id, ..) or deleteAssessment(id) leaves the record stored under
\* every other id exactly as it was (neither added, removed nor changed), and
\* deleteAssessment returns the record that was stored at id before the call.
C18_OnlyTargetTouched ==
    [][ (call'.op \in MutatingOps /\ IsOk(result'))
        => LET target == IF call'.op = "createEnergyAssessment"
                         THEN result'.Ok.id ELSE call'.id
           IN /\ \A k \in (DOMAIN energyAssessmentStorage
                             \cup DOMAIN energyAssessmentStorage') \ {target} :
                    /\ k \in DOMAIN energyAssessmentStorage
                    /\ k \in DOMAIN energyAssessmentStorage'
                    /\ energyAssessmentStorage'[k] = energyAssessmentStorage[k]
              /\ call'.op = "deleteEnergyAssessment"
                    => /\ result'.Ok = energyAssessmentStorage[call'.id]
                       /\ call'.id \notin DOMAIN energyAssessmentStorage'
      ]_vars

\* the second of two stored records is updated; the first has another address
C18_Witness ==
    /\ call.op = "updateEnergyAssessment"
    /\ IsOk(result)
    /\ call.id = Uuid(2)
    /\ Uuid(1) \in DOMAIN energyAssessmentStorage
    /\ energyAssessmentStorage[Uuid(1)].address # result.Ok.address

\* C19: every record is stored under its own id: for each key k of the store
\* the record at k has id = k (so no record is stored under two keys), and
\* right after a successful updateAssessment(id, ..) the returned record has
\* that id and is the record stored at id: the write under the merged record's
\* id goes to the key that was read.
C19_StoredUnderOwnId ==
    /\ \A k \in DOMAIN energyAssessmentStorage : energyAssessmentStorage[k].id = k
    /\ \A k1, k2 \in DOMAIN energyAssessmentStorage :
            energyAssessmentStorage[k1].id = energyAssessmentStorage[k2].id => k1 = k2
    /\ (call.op = "updateEnergyAssessment" /\ IsOk(result))
            => /\ result.Ok.id = call.id
               /\ call.id \in DOMAIN energyAssessmentStorage
               /\ energyAssessmentStorage[call.id] = result.Ok

\* the first of two stored records is updated after the second was created
C19_Witness ==
    /\ call.op = "updateEnergyAssessment"
    /\ IsOk(result)
    /\ call.id = Uuid(1)
    /\ result.Ok.id = Uuid(1)
    /\ DOMAIN energyAssessmentStorage = {Uuid(1), Uuid(2)}

====
